---------------------------- MODULE Spec2Model ----------------------------
(***************************************************************************)
(* Indicator scripts of MHackers-Quant/Trading-Strategies as one state     *)
(* machine: EMACrossover, FibonacciStockIndicator, RSIStrategy,            *)
(* SMACrossover, MACDStrategy and bollinger_bands.                         *)
(*                                                                         *)
(* Each script downloads a price table and adds derived columns to it.     *)
(* One run of the machine is one run of one script: `script` names it,     *)
(* `fetched` is the table as yf.download returned it, `data` is the table  *)
(* the script works on (self.data / the local `data`).                     *)
(*                                                                         *)
(* Numbers.  The scripts compute in IEEE doubles; the model computes in    *)
(* exact rationals, extended with the three non-finite doubles the         *)
(* scripts can produce: NaN, +inf and -inf.  A rational is a record        *)
(* [n, d] in lowest terms with d > 0; d = 0 marks a non-finite value       *)
(* (n = 0 NaN, n = 1 +inf, n = -1 -inf).  Comparisons follow IEEE: any     *)
(* comparison with NaN is false.  Rows are numbered from 0 in pandas and   *)
(* from 1 in the sequences here; At(col, i) reads pandas row i.            *)
(***************************************************************************)
EXTENDS Integers, Sequences, FiniteSets, TLC

VARIABLES script, params, fetched, data, signals, levels, outcome

vars == <<script, params, fetched, data, signals, levels, outcome>>

-----------------------------------------------------------------------------
(* Bounds of the model: prices 1..MaxPrice, tables of at most MaxBars     *)
(* rows, windows and spans 1..MaxWindow                                    *)

MaxPrice == 2

MaxBars == 4

MaxWindow == 2

-----------------------------------------------------------------------------
(* Extended rationals: the model of a float64 cell *)

NaN == [n |-> 0, d |-> 0]

PosInf == [n |-> 1, d |-> 0]

NegInf == [n |-> -1, d |-> 0]

Abs(x) == IF x < 0 THEN -x ELSE x

Sgn(x) == IF x < 0 THEN -1 ELSE IF x > 0 THEN 1 ELSE 0

RECURSIVE GCD(_, _)
GCD(a, b) == IF b = 0 THEN a ELSE GCD(b, a % b)

\* n/d in lowest terms, d # 0
Frac(n, d) ==
    LET g == GCD(Abs(n), Abs(d))
    IN  [n |-> Sgn(d) * (n \div g), d |-> Abs(d) \div g]

R(k) == [n |-> k, d |-> 1]

IsNaN(a) == a.d = 0 /\ a.n = 0

IsInf(a) == a.d = 0 /\ a.n # 0

IsFinite(a) == a.d > 0

RNeg(a) == [n |-> -a.n, d |-> a.d]

RAdd(a, b) ==
    IF IsNaN(a) \/ IsNaN(b) THEN NaN
    ELSE IF IsInf(a) THEN (IF IsInf(b) /\ b.n # a.n THEN NaN ELSE a)
    ELSE IF IsInf(b) THEN b
    ELSE Frac(a.n * b.d + b.n * a.d, a.d * b.d)

RSub(a, b) == RAdd(a, RNeg(b))

RMul(a, b) ==
    IF IsNaN(a) \/ IsNaN(b) THEN NaN
    ELSE IF IsInf(a) \/ IsInf(b)
         THEN (IF a.n = 0 \/ b.n = 0 THEN NaN
               ELSE [n |-> Sgn(a.n) * Sgn(b.n), d |-> 0])
    ELSE Frac(a.n * b.n, a.d * b.d)

\* float division: x/0 is +-inf, 0/0 is NaN, x/inf is 0 (no exception)
RDiv(a, b) ==
    IF IsNaN(a) \/ IsNaN(b) THEN NaN
    ELSE IF IsInf(a)
         THEN (IF IsInf(b) THEN NaN
               ELSE [n |-> a.n * (IF b.n < 0 THEN -1 ELSE 1), d |-> 0])
    ELSE IF IsInf(b) THEN R(0)
    ELSE IF b.n = 0
         THEN (IF a.n = 0 THEN NaN ELSE [n |-> Sgn(a.n), d |-> 0])
    ELSE Frac(a.n * b.d, a.d * b.n)

\* IEEE comparisons: false as soon as an operand is NaN
RLt(a, b) ==
    /\ ~IsNaN(a)
    /\ ~IsNaN(b)
    /\ IF IsInf(a) \/ IsInf(b)
       THEN (IF IsInf(a) /\ IsInf(b) THEN a.n < b.n
             ELSE IF IsInf(a) THEN a.n < 0 ELSE b.n > 0)
       ELSE a.n * b.d < b.n * a.d

RGt(a, b) == RLt(b, a)

REq(a, b) == ~IsNaN(a) /\ ~IsNaN(b) /\ a = b

RLe(a, b) == RLt(a, b) \/ REq(a, b)

RGe(a, b) == RLe(b, a)

-----------------------------------------------------------------------------
(* Tables (DataFrames): a record of equally long columns *)

At(col, i) == col[i + 1]

NRows(df) == Len(df.Date)

SetCol(df, name, col) == (name :> col) @@ df

HasCol(df, name) == name \in DOMAIN df

Prices == 1..MaxPrice

Cells == {R(p) : p \in Prices} \cup {NaN}

\* sequences over S of length 0..n
SeqsUpTo(S, n) == UNION {[1..k -> S] : k \in 0..n}

\* the table yf.download returns for a list of closes; Date is the row label
Download(closes) ==
    [Date |-> [i \in 1..Len(closes) |-> i], Close |-> closes]

EmptyTable == Download(<<>>)

-----------------------------------------------------------------------------
(* pandas Series operations used by the scripts *)

\* the sum of the observed cells of rows lo..hi, halving the range
RECURSIVE WinSum(_, _, _)
WinSum(col, lo, hi) ==
    IF lo > hi THEN R(0)
    ELSE IF lo = hi THEN (IF IsNaN(col[lo]) THEN R(0) ELSE col[lo])
    ELSE LET mid == (lo + hi) \div 2
         IN  RAdd(WinSum(col, lo, mid), WinSum(col, mid + 1, hi))

WinObs(col, lo, hi) == Cardinality({j \in lo..hi : ~IsNaN(col[j])})

\* Series.rolling(window=w, min_periods=minp).mean(): over the last w rows
\* (fewer at the top of the table), the mean of the observed cells when at
\* least minp of them are observed, NaN otherwise
\* a rolling mean that reports a value from the first observation on
rolling_mean_eager(col, w, minp) ==
    [i \in 1..Len(col) |->
       LET lo == IF i - w + 1 < 1 THEN 1 ELSE i - w + 1
           nobs == WinObs(col, lo, i)
       IN  IF nobs > 0
           THEN RDiv(WinSum(col, lo, i), R(nobs))
           ELSE NaN]

rolling_mean(col, w, minp) ==
    [i \in 1..Len(col) |->
       LET lo == IF i - w + 1 < 1 THEN 1 ELSE i - w + 1
           nobs == WinObs(col, lo, i)
       IN  IF nobs >= minp /\ nobs > 0
           THEN RDiv(WinSum(col, lo, i), R(nobs))
           ELSE NaN]

\* Series.diff(): NaN in row 0
diff(col) ==
    [i \in 1..Len(col) |-> IF i = 1 THEN NaN ELSE RSub(col[i], col[i - 1])]

\* Series.shift(1)
shift(col) == [i \in 1..Len(col) |-> IF i = 1 THEN NaN ELSE col[i - 1]]

-----------------------------------------------------------------------------
(* SMACrossover (RSI.py, "SMA Crossover.py") *)

SMACrossover_calculate_sma(df, p) ==
    LET d1 == SetCol(df, "SMA_Short", rolling_mean(df.Close, p.short_window, p.short_window))
    IN  SetCol(d1, "SMA_Long", rolling_mean(d1.Close, p.long_window, p.long_window))

\* the signal that also counts a tie as the short average being above
CrossoverColumns_inclusive(df, a, b) ==
    LET sig == [i \in 1..NRows(df) |->
                  IF RGe(df[a][i], df[b][i]) THEN R(1) ELSE R(0)]
        d1 == SetCol(df, "Signal", sig)
    IN  SetCol(d1, "Crossover", diff(d1.Signal))

\* np.where(A > B, 1.0, 0.0) followed by .diff()
CrossoverColumns(df, a, b) ==
    LET sig == [i \in 1..NRows(df) |->
                  IF RGt(df[a][i], df[b][i]) THEN R(1) ELSE R(0)]
        d1 == SetCol(df, "Signal", sig)
    IN  SetCol(d1, "Crossover", diff(d1.Signal))

SMACrossover_generate_signals(df) == CrossoverColumns(df, "SMA_Short", "SMA_Long")

SMACrossover_init ==
    /\ script = "none"
    /\ \E closes \in SeqsUpTo(Cells, MaxBars), sw \in 1..MaxWindow, lw \in 1..MaxWindow :
         LET p == [short_window |-> sw, long_window |-> lw]
             df == Download(closes)
         IN  /\ script' = "SMACrossover"
             /\ params' = p
             /\ fetched' = df
             /\ data' = SMACrossover_generate_signals(SMACrossover_calculate_sma(df, p))
             /\ outcome' = "ok"
             /\ UNCHANGED <<signals, levels>>

-----------------------------------------------------------------------------
(* EMACrossover (part_000, "EMA Crossover.py") *)

\* Series.ewm(span=span, adjust=False).mean(), as pandas computes it:
\* alpha = 2/(span+1); the running average starts at the first observed
\* cell (rows before it are NaN); an unobserved cell leaves the average
\* unchanged and ages its weight old_wt by (1 - alpha)
RECURSIVE EwmMean(_, _, _, _, _, _)
EwmMean(col, alpha, i, weighted, old_wt, out) ==
    IF i > Len(col) THEN out
    ELSE LET cur == col[i]
             obs == ~IsNaN(cur)
             aged == RMul(old_wt, RSub(R(1), alpha))
             w1 == IF IsNaN(weighted) THEN cur
                   ELSE IF obs
                        THEN (IF weighted # cur
                              THEN RDiv(RAdd(RMul(aged, weighted), RMul(alpha, cur)),
                                        RAdd(aged, alpha))
                              ELSE weighted)
                   ELSE weighted
             o1 == IF IsNaN(weighted) \/ obs THEN R(1) ELSE aged
         IN  EwmMean(col, alpha, i + 1, w1, o1, Append(out, w1))

ewm_mean(col, span) == EwmMean(col, Frac(2, span + 1), 1, NaN, R(1), <<>>)

EMACrossover_calculate_ema(df, p) ==
    LET d1 == SetCol(df, "EMA_Short", ewm_mean(df.Close, p.short_window))
    IN  SetCol(d1, "EMA_Long", ewm_mean(d1.Close, p.long_window))

EMACrossover_generate_signals(df) == CrossoverColumns(df, "EMA_Short", "EMA_Long")

EMACrossover_init ==
    /\ script = "none"
    /\ \E closes \in SeqsUpTo(Cells, MaxBars), sw \in 1..MaxWindow, lw \in 1..MaxWindow :
         LET p == [short_window |-> sw, long_window |-> lw]
             df == Download(closes)
         IN  /\ script' = "EMACrossover"
             /\ params' = p
             /\ fetched' = df
             /\ data' = EMACrossover_generate_signals(EMACrossover_calculate_ema(df, p))
             /\ outcome' = "ok"
             /\ UNCHANGED <<signals, levels>>

-----------------------------------------------------------------------------
(* RSIStrategy (RSI.py) *)

\* delta.where(delta > 0, 0): a NaN delta fails the test and becomes 0
gain_of(delta) ==
    [i \in 1..Len(delta) |-> IF RGt(delta[i], R(0)) THEN delta[i] ELSE R(0)]

\* -delta.where(delta < 0, 0); the sign of a zero is not modelled, it does
\* not change any quotient below beyond the sign of an infinity
loss_of(delta) ==
    [i \in 1..Len(delta) |-> IF RLt(delta[i], R(0)) THEN RNeg(delta[i]) ELSE R(0)]

avg_gain_of(df, p) == rolling_mean(gain_of(diff(df.Close)), p.rsi_period, 1)

avg_loss_of(df, p) == rolling_mean(loss_of(diff(df.Close)), p.rsi_period, 1)

\* 100 - (100 / (1 + rs))
rsi_of(rs) == RSub(R(100), RDiv(R(100), RAdd(R(1), rs)))

RSIStrategy_calculate_rsi(df, p) ==
    LET avg_gain == avg_gain_of(df, p)
        avg_loss == avg_loss_of(df, p)
        rs == [i \in 1..NRows(df) |-> RDiv(avg_gain[i], avg_loss[i])]
    IN  SetCol(df, "RSI", [i \in 1..NRows(df) |-> rsi_of(rs[i])])

RSIStrategy_init ==
    /\ script = "none"
    /\ \E closes \in SeqsUpTo(Cells, MaxBars), rp \in 1..MaxWindow :
         LET p == [rsi_period |-> rp, overbought |-> 70, oversold |-> 30]
             df == Download(closes)
         IN  /\ script' = "RSIStrategy"
             /\ params' = p
             /\ fetched' = df
             /\ data' = RSIStrategy_calculate_rsi(df, p)
             /\ outcome' = "ok"
             /\ UNCHANGED <<signals, levels>>

-----------------------------------------------------------------------------
(* bollinger_bands (bollinger_bands.py) *)

\* A band cell is a + k*sqrt(rad) with a, k, rad rational, kept exact
SurdNaN == [a |-> NaN, k |-> NaN, rad |-> NaN]

Surd(a, k, rad) ==
    IF IsNaN(a) \/ IsNaN(k) \/ IsNaN(rad) THEN SurdNaN
    ELSE IF k.n = 0 \/ rad.n = 0 THEN [a |-> a, k |-> R(0), rad |-> R(0)]
    ELSE [a |-> a, k |-> k, rad |-> rad]

\* Series.rolling(window=w).std(): sample variance (ddof = 1) of the last w
\* cells, NaN unless all w are observed and w > 1
rolling_var(col, w) ==
    [i \in 1..Len(col) |->
       IF i < w \/ w < 2 \/ \E j \in (i - w + 1)..i : j >= 1 /\ IsNaN(col[j])
       THEN NaN
       ELSE LET win == (i - w + 1)..i
                RECURSIVE S1(_), S2(_)
                S1(j) == IF j \notin win THEN R(0) ELSE RAdd(col[j], S1(j - 1))
                S2(j) == IF j \notin win THEN R(0)
                         ELSE RAdd(RMul(col[j], col[j]), S2(j - 1))
            IN  RDiv(RSub(RMul(R(w), S2(i)), RMul(S1(i), S1(i))), R(w * (w - 1)))]

rolling_std(col, w) ==
    LET var == rolling_var(col, w)
    IN  [i \in 1..Len(col) |-> Surd(R(0), R(1), var[i])]

bollinger_columns(df, period, k) ==
    LET d1 == SetCol(df, "SMA", rolling_mean(df.Close, period, period))
        d2 == SetCol(d1, "STD", rolling_std(d1.Close, period))
        d3 == SetCol(d2, "Upper Band",
                     [i \in 1..NRows(df) |->
                        Surd(RAdd(d2.SMA[i], RMul(k, d2.STD[i].a)),
                             RMul(k, d2.STD[i].k), d2.STD[i].rad)])
    IN  SetCol(d3, "Lower Band",
               [i \in 1..NRows(df) |->
                  Surd(RSub(d3.SMA[i], RMul(k, d3.STD[i].a)),
                       RNeg(RMul(k, d3.STD[i].k)), d3.STD[i].rad)])

MaxK == 1

Ks == {R(k) : k \in (0 - 1)..MaxK}

bollinger_bands ==
    /\ script = "none"
    /\ \E closes \in SeqsUpTo(Cells, MaxBars), period \in 1..MaxWindow, k \in Ks :
         LET df == Download(closes)
         IN  /\ script' = "bollinger_bands"
             /\ params' = [period |-> period, k |-> k]
             /\ fetched' = df
             /\ data' = IF NRows(df) = 0 THEN df ELSE bollinger_columns(df, period, k)
             /\ outcome' = "ok"
             /\ UNCHANGED <<signals, levels>>

-----------------------------------------------------------------------------
(* MACDStrategy (MACD.py) *)

MacdMaxPrice == 3

MacdMaxBars == 4

(* The spans 12, 26 and 9 give the averages denominators 13^i, 27^i and    *)
(* 5^i in row i, beyond 32 bits after three rows.  The MACD columns are    *)
(* therefore kept as exact fixed-point cells: an integer (hi*BigBase + lo, *)
(* 0 <= lo < BigBase) over the denominator MacdRadix^e, with e = number of *)
(* rows - 1, which every value of the table divides.  One step of the      *)
(* scale is the product of the three step denominators 13, 27 and 5.       *)

FastSpan == 12

SlowSpan == 26

SignalSpan == 9

BigBase == 2^25

Big(k) == [hi |-> k \div BigBase, lo |-> k % BigBase]

BigAdd(a, b) ==
    [hi |-> a.hi + b.hi + ((a.lo + b.lo) \div BigBase), lo |-> (a.lo + b.lo) % BigBase]

BigNeg(a) ==
    IF a.lo = 0 THEN [hi |-> -a.hi, lo |-> 0]
    ELSE [hi |-> -a.hi - 1, lo |-> BigBase - a.lo]

\* 0 <= k < 64
BigMulS(a, k) ==
    [hi |-> a.hi * k + ((a.lo * k) \div BigBase), lo |-> (a.lo * k) % BigBase]

\* 0 < k < 64, the quotient rounded down
BigDivS(a, k) ==
    [hi |-> a.hi \div k, lo |-> ((a.hi % k) * BigBase + a.lo) \div k]

BigLt(a, b) == a.hi < b.hi \/ (a.hi = b.hi /\ a.lo < b.lo)

RECURSIVE BigScale(_, _)
BigScale(a, e) ==
    IF e = 0 THEN a
    ELSE BigScale(BigMulS(BigMulS(BigMulS(a, FastSpan + 1), SlowSpan + 1),
                          (SignalSpan + 1) \div 2), e - 1)

FxNaN(e) == [nan |-> TRUE, hi |-> 0, lo |-> 0, e |-> e]

Fx(b, e) == [nan |-> FALSE, hi |-> b.hi, lo |-> b.lo, e |-> e]

FxBig(x) == [hi |-> x.hi, lo |-> x.lo]

\* an integer price as a fixed-point cell
ToFx(r, e) == IF IsNaN(r) THEN FxNaN(e) ELSE Fx(BigScale(Big(r.n), e), e)

FxSub(x, y) ==
    IF x.nan \/ y.nan THEN FxNaN(x.e) ELSE Fx(BigAdd(FxBig(x), BigNeg(FxBig(y))), x.e)

FxLt(x, y) == ~x.nan /\ ~y.nan /\ BigLt(FxBig(x), FxBig(y))

FxGt(x, y) == FxLt(y, x)

FxLe(x, y) == ~x.nan /\ ~y.nan /\ ~BigLt(FxBig(y), FxBig(x))

FxGe(x, y) == FxLe(y, x)

FxZero(e) == Fx(Big(0), e)

\* one ewm step: cur*alpha + weighted*(1 - alpha), alpha = 2/(span + 1)
\* the step with the two weights exchanged
FxEwmStep_swapped(cur, weighted, span) ==
    Fx(BigDivS(BigAdd(BigMulS(FxBig(weighted), 2), BigMulS(FxBig(cur), span - 1)),
               span + 1), cur.e)

FxEwmStep(cur, weighted, span) ==
    Fx(BigDivS(BigAdd(BigMulS(FxBig(cur), 2), BigMulS(FxBig(weighted), span - 1)),
               span + 1), cur.e)

\* Series.ewm(span=span, adjust=False).mean() on fixed-point cells whose
\* unobserved cells form a leading or a trailing run: NaN up to the first
\* observation, the last average carried over an unobserved cell
RECURSIVE FxEwm(_, _, _, _, _)
FxEwm(col, span, i, weighted, out) ==
    IF i > Len(col) THEN out
    ELSE LET cur == col[i]
             w1 == IF weighted.nan THEN cur
                   ELSE IF cur.nan THEN weighted
                   ELSE FxEwmStep(cur, weighted, span)
         IN  FxEwm(col, span, i + 1, w1, Append(out, w1))

fx_ewm_mean(col, span) ==
    IF Len(col) = 0 THEN <<>> ELSE FxEwm(col, span, 1, FxNaN(col[1].e), <<>>)

MACDStrategy_calculate_macd(df) ==
    LET e == IF NRows(df) = 0 THEN 0 ELSE NRows(df) - 1
        close == [i \in 1..NRows(df) |-> ToFx(df.Close[i], e)]
        fast == fx_ewm_mean(close, FastSpan)
        slow == fx_ewm_mean(close, SlowSpan)
        d1 == SetCol(df, "MACD", [i \in 1..NRows(df) |-> FxSub(fast[i], slow[i])])
    IN  SetCol(d1, "MACD_SIGNAL", fx_ewm_mean(d1.MACD, SignalSpan))

\* the crossing above without the side-of-zero filter
BuyAt_unfiltered(df, i) ==
    /\ FxGt(df.MACD[i], df.MACD_SIGNAL[i])
    /\ FxLe(df.MACD[i - 1], df.MACD_SIGNAL[i - 1])

BuyAt(df, i) ==
    /\ FxGt(df.MACD[i], df.MACD_SIGNAL[i])
    /\ FxLe(df.MACD[i - 1], df.MACD_SIGNAL[i - 1])
    /\ FxLt(df.MACD[i], FxZero(df.MACD[i].e))

SellAt(df, i) ==
    /\ FxLt(df.MACD[i], df.MACD_SIGNAL[i])
    /\ FxGe(df.MACD[i - 1], df.MACD_SIGNAL[i - 1])
    /\ FxGt(df.MACD[i], FxZero(df.MACD[i].e))

\* the loop "for i in range(1, len(self.data))" over columns preset to False
MACDStrategy_generate_signals(df) ==
    LET d1 == SetCol(df, "Buy_Signal",
                     [i \in 1..NRows(df) |-> i >= 2 /\ BuyAt(df, i)])
    IN  SetCol(d1, "Sell_Signal",
               [i \in 1..NRows(df) |-> i >= 2 /\ SellAt(df, i)])

\* no observed close after a gap that follows an observed close
NoInteriorGap(s) ==
    \A i, j, k \in 1..Len(s) :
        i < j /\ j < k => ~(~IsNaN(s[i]) /\ IsNaN(s[j]) /\ ~IsNaN(s[k]))

MacdCells == {R(p) : p \in 1..MacdMaxPrice} \cup {NaN}

MACDCloses == {s \in SeqsUpTo(MacdCells, MacdMaxBars) : NoInteriorGap(s)}

MACDStrategy_init ==
    /\ script = "none"
    /\ \E closes \in MACDCloses :
         LET df == Download(closes)
         IN  /\ script' = "MACDStrategy"
             /\ params' = <<>>
             /\ fetched' = df
             /\ data' = MACDStrategy_generate_signals(MACDStrategy_calculate_macd(df))
             /\ outcome' = "ok"
             /\ UNCHANGED <<signals, levels>>

-----------------------------------------------------------------------------
(* FibonacciStockIndicator (part_000, "Fibonacci Retracements.py") *)

FibMaxPrice == 4

FibMaxBase == 29

FibMaxTail == 2

MinDataPoints == 10

FastWindow == 10

SlowWindow == 30

Bar(c, h, l) == [Close |-> c, High |-> h, Low |-> l]

NaNBar == Bar(NaN, NaN, NaN)

\* Low <= Close <= High in every quoted bar
FlatBars == {Bar(R(c), R(c), R(c)) : c \in 1..FibMaxPrice}

WickBar == Bar(R(2), R(3), R(1))

TailBars == FlatBars \cup {WickBar, NaNBar}

Run(base, n, tail) ==
    [i \in 1..(n + Len(tail)) |-> IF i <= n THEN base ELSE tail[i - n]]

\* two months of bars: a flat run of any length, or a flat run that stops
\* just short of a threshold (the minimum row count, the slow window)
\* followed by a few arbitrary bars
FibDownloads ==
    {Run(base, n, <<>>) : n \in 0..FibMaxBase, base \in FlatBars}
    \cup
    {Run(base, n, tail) :
        n \in {MinDataPoints - 1, FibMaxBase - 1, FibMaxBase},
        base \in FlatBars, tail \in SeqsUpTo(TailBars, FibMaxTail)}

FibTable(bars) ==
    [Date |-> [i \in 1..Len(bars) |-> i],
     Close |-> [i \in 1..Len(bars) |-> bars[i].Close],
     High |-> [i \in 1..Len(bars) |-> bars[i].High],
     Low |-> [i \in 1..Len(bars) |-> bars[i].Low]]

RowHasNaN(df, i) == \E c \in DOMAIN df : c # "Date" /\ IsNaN(df[c][i])

\* DataFrame.dropna(): the rows without a NaN, in order, labels kept
dropna(df) ==
    LET keep == SelectSeq([i \in 1..NRows(df) |-> i], LAMBDA i : ~RowHasNaN(df, i))
    IN  [c \in DOMAIN df |-> [i \in 1..Len(keep) |-> df[c][keep[i]]]]

\* the exception fetch_stock_data re-raises, "ok" when it returns
fetch_outcome(df) ==
    IF NRows(df) = 0 THEN "IndexError"
    ELSE IF NRows(dropna(df)) < MinDataPoints THEN "ValueError"
    ELSE "ok"

\* self.data when fetch_stock_data ends
fetch_stock_data(df) == IF NRows(df) = 0 THEN df ELSE dropna(df)

Raised == outcome \in {"IndexError", "ValueError"}

Fibonacci_init ==
    /\ script = "none"
    /\ \E bars \in FibDownloads :
         LET df == FibTable(bars)
         IN  /\ script' = "Fibonacci"
             /\ params' = <<>>
             /\ fetched' = df
             /\ data' = fetch_stock_data(df)
             /\ outcome' = fetch_outcome(df)
             /\ UNCHANGED <<signals, levels>>

\* Series.max() and Series.min() of a column without NaN
ColMax(col) ==
    CHOOSE m \in {col[i] : i \in 1..Len(col)} : \A j \in 1..Len(col) : ~RLt(m, col[j])

ColMin(col) ==
    CHOOSE m \in {col[i] : i \in 1..Len(col)} : \A j \in 1..Len(col) : ~RGt(m, col[j])

\* high - r * (high - low), r = num/1000
\* the retracement measured up from the low
Retrace_from_low(high, low, num) == RAdd(low, RMul(Frac(num, 1000), RSub(high, low)))

Retrace(high, low, num) == RSub(high, RMul(Frac(num, 1000), RSub(high, low)))

fibonacci_levels(df) ==
    LET high == ColMax(df.High)
        low == ColMin(df.Low)
    IN  [label \in {"0%", "23.6%", "38.2%", "50%", "61.8%", "100%"} |->
           CASE label = "0%" -> high
             [] label = "23.6%" -> Retrace(high, low, 236)
             [] label = "38.2%" -> Retrace(high, low, 382)
             [] label = "50%" -> Retrace(high, low, 500)
             [] label = "61.8%" -> Retrace(high, low, 618)
             [] label = "100%" -> low]

\* self.data after generate_trading_signals
with_moving_averages(df) ==
    LET d1 == SetCol(df, "SMA_10", rolling_mean(df.Close, FastWindow, FastWindow))
    IN  SetCol(d1, "SMA_30", rolling_mean(d1.Close, SlowWindow, SlowWindow))

\* a buy that needs the fast average strictly below on the previous row
buy_signal_strict(df, i) ==
    /\ RGt(df.SMA_10[i], df.SMA_30[i])
    /\ RLt(shift(df.SMA_10)[i], shift(df.SMA_30)[i])

buy_signal(df, i) ==
    /\ RGt(df.SMA_10[i], df.SMA_30[i])
    /\ RLe(shift(df.SMA_10)[i], shift(df.SMA_30)[i])

sell_signal(df, i) ==
    /\ RLt(df.SMA_10[i], df.SMA_30[i])
    /\ RGe(shift(df.SMA_10)[i], shift(df.SMA_30)[i])

\* the returned frame: Signal preset to 0, buys set to 1, then sells to -1
trading_signals(df) ==
    [Date |-> df.Date,
     Close |-> df.Close,
     Signal |-> [i \in 1..NRows(df) |->
                   IF sell_signal(df, i) THEN R(-1)
                   ELSE IF buy_signal(df, i) THEN R(1)
                   ELSE R(0)]]

calculate_fibonacci_levels ==
    /\ script = "Fibonacci"
    /\ outcome = "ok"
    /\ levels' = fibonacci_levels(data)
    /\ UNCHANGED <<script, params, fetched, data, signals, outcome>>

generate_trading_signals ==
    /\ script = "Fibonacci"
    /\ outcome = "ok"
    /\ data' = with_moving_averages(data)
    /\ signals' = trading_signals(data')
    /\ UNCHANGED <<script, params, fetched, levels, outcome>>

plot_fibonacci_chart ==
    /\ script = "Fibonacci"
    /\ outcome = "ok"
    /\ levels' = fibonacci_levels(data)
    /\ data' = with_moving_averages(data)
    /\ signals' = trading_signals(data')
    /\ UNCHANGED <<script, params, fetched, outcome>>

-----------------------------------------------------------------------------

Init ==
    /\ script = "none"
    /\ params = <<>>
    /\ fetched = EmptyTable
    /\ data = EmptyTable
    /\ signals = <<>>
    /\ levels = <<>>
    /\ outcome = "none"

Next ==
    \/ SMACrossover_init
    \/ EMACrossover_init
    \/ RSIStrategy_init
    \/ bollinger_bands
    \/ MACDStrategy_init
    \/ Fibonacci_init
    \/ calculate_fibonacci_levels
    \/ generate_trading_signals
    \/ plot_fibonacci_chart

Spec == Init /\ [][Next]_vars

\* one script at a time
NextFib ==
    \/ Fibonacci_init
    \/ calculate_fibonacci_levels
    \/ generate_trading_signals
    \/ plot_fibonacci_chart

SpecFib == Init /\ [][NextFib]_vars

NextMACD == MACDStrategy_init

SpecMACD == Init /\ [][NextMACD]_vars

\* the scripts that compute a rolling mean of Close
NextSMA ==
    \/ SMACrossover_init
    \/ bollinger_bands
    \/ Fibonacci_init
    \/ calculate_fibonacci_levels
    \/ generate_trading_signals
    \/ plot_fibonacci_chart

SpecSMA == Init /\ [][NextSMA]_vars

\* the two detectors that difference a 0/1 signal
NextCross ==
    \/ SMACrossover_init
    \/ EMACrossover_init

SpecCross == Init /\ [][NextCross]_vars

-----------------------------------------------------------------------------
(* Properties *)

\* comparisons of two cells that hold only when both are numbers
Above(a, b) == a.d > 0 /\ b.d > 0 /\ a.n * b.d > b.n * a.d

Same(a, b) == a.d > 0 /\ b.d > 0 /\ a.n * b.d = b.n * a.d

Buy == R(1)

Sell == R(-1)

HasSignals == DOMAIN signals # {}

HasLevels == DOMAIN levels # {}

\* pandas row numbers 1..n-1 of the working table
Rows1 == 1..(NRows(data) - 1)

AllRows == 0..(NRows(data) - 1)

(* C1: in the frame generate_trading_signals returns, at every row i >= 1  *)
(* where SMA_10 and SMA_30 are numbers at i and at i-1, Signal is 1        *)
(* exactly when SMA_10 is above SMA_30 at i and not above it at i-1, -1    *)
(* exactly when it is below at i and not below at i-1, and 0 otherwise.    *)
C1_FibSignalRule ==
    (script = "Fibonacci" /\ HasSignals) =>
        /\ Len(signals.Signal) = NRows(data)
        /\ \A i \in Rows1 :
             LET a == At(data.SMA_10, i)
                 b == At(data.SMA_30, i)
                 pa == At(data.SMA_10, i - 1)
                 pb == At(data.SMA_30, i - 1)
                 sig == At(signals.Signal, i)
             IN  (a.d > 0 /\ b.d > 0 /\ pa.d > 0 /\ pb.d > 0) =>
                   /\ sig = Buy <=> (Above(a, b) /\ ~Above(pa, pb))
                   /\ sig = Sell <=> (Above(b, a) /\ ~Above(pb, pa))
                   /\ sig \in {Buy, Sell, R(0)}

\* a Buy at a row whose previous row had SMA_10 strictly below SMA_30
C1_Witness ==
    /\ script = "Fibonacci"
    /\ HasSignals
    /\ \E i \in Rows1 :
         /\ At(signals.Signal, i) = Buy
         /\ Above(At(data.SMA_30, i - 1), At(data.SMA_10, i - 1))

\* the two compared series and the event column of each crossover detector
TieAt(A, B, i) == Same(At(A, i), At(B, i))

EventAt(i) ==
    CASE script \in {"SMACrossover", "EMACrossover"} ->
           At(data.Crossover, i) \in {Buy, Sell}
      [] script = "Fibonacci" -> At(signals.Signal, i) \in {Buy, Sell}
      [] script = "MACDStrategy" ->
           At(data.Buy_Signal, i) \/ At(data.Sell_Signal, i)

SellEventAt(i) ==
    CASE script \in {"SMACrossover", "EMACrossover"} -> At(data.Crossover, i) = Sell
      [] script = "Fibonacci" -> At(signals.Signal, i) = Sell
      [] script = "MACDStrategy" -> At(data.Sell_Signal, i)

BuyEventAt(i) ==
    CASE script \in {"SMACrossover", "EMACrossover"} -> At(data.Crossover, i) = Buy
      [] script = "Fibonacci" -> At(signals.Signal, i) = Buy
      [] script = "MACDStrategy" -> At(data.Buy_Signal, i)

\* MACD cells as rationals over a common denominator: only their order matters
FxAbove(x, y) == ~x.nan /\ ~y.nan /\ (x.hi > y.hi \/ (x.hi = y.hi /\ x.lo > y.lo))

FxSame(x, y) == ~x.nan /\ ~y.nan /\ x.hi = y.hi /\ x.lo = y.lo

SideAbove(i) ==
    CASE script = "SMACrossover" -> Above(At(data.SMA_Short, i), At(data.SMA_Long, i))
      [] script = "EMACrossover" -> Above(At(data.EMA_Short, i), At(data.EMA_Long, i))
      [] script = "Fibonacci" -> Above(At(data.SMA_10, i), At(data.SMA_30, i))
      [] script = "MACDStrategy" -> FxAbove(At(data.MACD, i), At(data.MACD_SIGNAL, i))

SideBelow(i) ==
    CASE script = "SMACrossover" -> Above(At(data.SMA_Long, i), At(data.SMA_Short, i))
      [] script = "EMACrossover" -> Above(At(data.EMA_Long, i), At(data.EMA_Short, i))
      [] script = "Fibonacci" -> Above(At(data.SMA_30, i), At(data.SMA_10, i))
      [] script = "MACDStrategy" -> FxAbove(At(data.MACD_SIGNAL, i), At(data.MACD, i))

SideTie(i) ==
    CASE script = "SMACrossover" -> TieAt(data.SMA_Short, data.SMA_Long, i)
      [] script = "EMACrossover" -> TieAt(data.EMA_Short, data.EMA_Long, i)
      [] script = "Fibonacci" -> TieAt(data.SMA_10, data.SMA_30, i)
      [] script = "MACDStrategy" -> FxSame(At(data.MACD, i), At(data.MACD_SIGNAL, i))

\* the download is a price series as the specification defines one, and the
\* windows are ordered: what the claims below may take for granted
NoMissingClose == \A i \in 1..NRows(fetched) : ~IsNaN(fetched.Close[i])

OrderedWindows ==
    script \in {"SMACrossover", "EMACrossover"} => params.short_window < params.long_window

Detected ==
    /\ NoMissingClose
    /\ OrderedWindows
    /\ \/ script \in {"SMACrossover", "EMACrossover", "MACDStrategy"} /\ outcome = "ok"
       \/ script = "Fibonacci" /\ HasSignals

(* C2: in every crossover detector a row where the two compared series are *)
(* equal carries no Buy or Sell event, and after a strict side followed by *)
(* one or more equal rows the event is at the first later row strictly on  *)
(* the opposite side.  Stated for downloads without a missing close and    *)
(* for short_window < long_window.                                         *)
C2_TieCarriesNoEvent ==
    Detected =>
        /\ \A i \in AllRows : SideTie(i) => ~EventAt(i)
        /\ \A i, k \in AllRows :
             (i + 1 < k /\ \A j \in (i + 1)..(k - 1) : SideTie(j)) =>
                /\ (SideAbove(i) /\ SideBelow(k)) => SellEventAt(k)
                /\ (SideBelow(i) /\ SideAbove(k)) => BuyEventAt(k)

(* C3: in the detectors over rolling SMAs no event is emitted at a row i   *)
(* where either moving average is undefined at i-1, in particular not at   *)
(* the first row where both are defined.  Stated for downloads without a   *)
(* missing close and for short_window < long_window.                       *)
C3_NoEventAfterUndefined ==
    /\ (script = "SMACrossover" /\ outcome = "ok" /\ NoMissingClose /\ OrderedWindows) =>
         \A i \in Rows1 :
            (IsNaN(At(data.SMA_Short, i - 1)) \/ IsNaN(At(data.SMA_Long, i - 1)))
               => ~EventAt(i)
    /\ (script = "Fibonacci" /\ HasSignals) =>
         \A i \in Rows1 :
            (IsNaN(At(data.SMA_10, i - 1)) \/ IsNaN(At(data.SMA_30, i - 1)))
               => ~EventAt(i)

FxNegative(x) == ~x.nan /\ x.hi < 0

FxPositive(x) == ~x.nan /\ (x.hi > 0 \/ (x.hi = 0 /\ x.lo > 0))

(* C4: in MACDStrategy, at every row i >= 1, Buy_Signal is true exactly    *)
(* when MACD is above MACD_SIGNAL at i, not above it at i-1, and negative  *)
(* at i; Sell_Signal is true exactly when MACD is below MACD_SIGNAL at i,  *)
(* not below it at i-1, and positive at i; row 0 carries no signal.        *)
C4_MacdSignalRule ==
    (script = "MACDStrategy" /\ outcome = "ok") =>
        /\ Len(data.Buy_Signal) = NRows(data)
        /\ Len(data.Sell_Signal) = NRows(data)
        /\ NRows(data) > 0 => (~At(data.Buy_Signal, 0) /\ ~At(data.Sell_Signal, 0))
        /\ \A i \in Rows1 :
             LET m == At(data.MACD, i)
                 s == At(data.MACD_SIGNAL, i)
                 pm == At(data.MACD, i - 1)
                 ps == At(data.MACD_SIGNAL, i - 1)
             IN  /\ At(data.Buy_Signal, i) <=>
                       (FxAbove(m, s) /\ (FxAbove(ps, pm) \/ FxSame(pm, ps))
                          /\ FxNegative(m))
                 /\ At(data.Sell_Signal, i) <=>
                       (FxAbove(s, m) /\ (FxAbove(pm, ps) \/ FxSame(pm, ps))
                          /\ FxPositive(m))

\* a Buy signal: MACD crosses above its signal line while negative
C4_Witness ==
    /\ script = "MACDStrategy"
    /\ \E i \in Rows1 : At(data.Buy_Signal, i)

DerivedColumns == DOMAIN data \ {"Date", "Close", "High", "Low"}

(* C5: constructing EMACrossover or SMACrossover with short_window >=      *)
(* long_window or a non-positive window, or calling bollinger_bands with   *)
(* period < 2 or k <= 0, fails with an error and produces no derived       *)
(* series and no signals.  Stated for downloads that are not empty and    *)
(* have no missing close.                                                  *)
C5_InvalidParametersRejected ==
    (NRows(fetched) > 0 /\ NoMissingClose) =>
    /\ (/\ script \in {"SMACrossover", "EMACrossover"}
        /\ \/ params.short_window >= params.long_window
           \/ params.short_window <= 0
           \/ params.long_window <= 0)
         => (Raised /\ DerivedColumns = {})
    /\ (/\ script = "bollinger_bands"
        /\ (params.period < 2 \/ params.k.n <= 0))
         => (Raised /\ DerivedColumns = {})

(* C6: when the download is empty or holds a bar with a missing close,     *)
(* bollinger_bands, MACDStrategy, RSIStrategy, SMACrossover and            *)
(* EMACrossover end in an error raised to the caller; none returns         *)
(* normally.  Stated for parameters the specification accepts.            *)
C6_InvalidInputRaises ==
    (/\ script \in {"bollinger_bands", "MACDStrategy", "RSIStrategy",
                    "SMACrossover", "EMACrossover"}
     /\ OrderedWindows
     /\ script = "bollinger_bands" => (params.period >= 2 /\ params.k.n > 0)
     /\ (NRows(fetched) = 0 \/ ~NoMissingClose))
      => Raised

(* C7: calculate_rsi leaves no NaN in the RSI column: where avg_loss is 0  *)
(* and avg_gain is positive the RSI is 100, and where both are 0 (row 0,   *)
(* or a window of unchanged closes) the RSI is a number.  Stated for       *)
(* downloads without a missing close.                                      *)
C7_RsiNeverNaN ==
    (script = "RSIStrategy" /\ outcome = "ok" /\ NoMissingClose) =>
        \A i \in AllRows :
            LET g == At(avg_gain_of(fetched, params), i)
                l == At(avg_loss_of(fetched, params), i)
                rsi == At(data.RSI, i)
            IN  /\ ~IsNaN(rsi)
                /\ (l = R(0) /\ Above(g, R(0))) => rsi = R(100)
                /\ (l = R(0) /\ g = R(0)) => rsi.d > 0

\* the closes of pandas rows lo..hi added up as integers
RECURSIVE CloseSum(_, _, _)
CloseSum(col, lo, hi) ==
    IF lo > hi THEN 0
    ELSE IF lo = hi THEN col[lo + 1].n
    ELSE CloseSum(col, lo, (lo + hi) \div 2) + CloseSum(col, (lo + hi) \div 2 + 1, hi)

\* column `sma` is the rolling mean of Close over p rows: as long as the
\* table, undefined before row p-1, and from row p-1 on the exact mean of
\* the last p closes (undefined when one of them is missing)
IsRollingMean(sma, p) ==
    /\ Len(sma) = NRows(data)
    /\ \A i \in AllRows :
         IF i < p - 1 \/ \E j \in (i - p + 1)..i : IsNaN(At(data.Close, j))
         THEN IsNaN(At(sma, i))
         ELSE /\ At(sma, i).d > 0
              /\ At(sma, i).n * p = At(sma, i).d * CloseSum(data.Close, i - p + 1, i)

(* C8: for every window p >= 1 the rolling SMA columns (SMA_Short and      *)
(* SMA_Long of SMACrossover, SMA of bollinger_bands, SMA_10 and SMA_30 of  *)
(* FibonacciStockIndicator) are as long as the table, undefined at every   *)
(* row i < p-1 and equal to the exact mean of close[i-p+1..i] from row     *)
(* p-1 on.                                                                 *)
C8_RollingMeanExact ==
    /\ (script = "SMACrossover" /\ outcome = "ok") =>
         /\ IsRollingMean(data.SMA_Short, params.short_window)
         /\ IsRollingMean(data.SMA_Long, params.long_window)
    /\ (script = "bollinger_bands" /\ HasCol(data, "SMA")) =>
         IsRollingMean(data.SMA, params.period)
    /\ (script = "Fibonacci" /\ HasCol(data, "SMA_10")) =>
         /\ IsRollingMean(data.SMA_10, FastWindow)
         /\ IsRollingMean(data.SMA_30, SlowWindow)

\* SMA_30 has both an undefined and a defined row whose closes differ
C8_Witness ==
    /\ script = "Fibonacci"
    /\ HasCol(data, "SMA_30")
    /\ NRows(data) > SlowWindow
    /\ IsNaN(At(data.SMA_30, SlowWindow - 2))
    /\ At(data.SMA_30, SlowWindow).d > 1

\* a by k, 0 <= k < 2048
BigMul(a, k) == BigAdd(BigMulS(BigMulS(a, 32), k \div 32), BigMulS(a, k % 32))

\* the integer k as a cell of the working table's fixed-point scale
Scaled(k) == BigScale(Big(k), NRows(data) - 1)

CloseAt(i) == At(data.Close, i).n

(* C9: calculate_macd gives MACD and MACD_SIGNAL a value at every row from *)
(* 0 on, with MACD = EMA(close, 12) - EMA(close, 26) and MACD_SIGNAL =     *)
(* EMA(MACD, 9), each EMA following ema[0] = x[0], ema[i] = x[i]*2/(s+1) + *)
(* ema[i-1]*(1 - 2/(s+1)); hence MACD[0] = 0 and MACD_SIGNAL[0] = 0.       *)
(* Stated for downloads without a missing close.  With f = EMA(close, 12)  *)
(* and g = EMA(close, 26), 13 f[i] = 2 x[i] + 11 f[i-1] and 27 g[i] =      *)
(* 2 x[i] + 25 g[i-1]; eliminating f and g from m = f - g leaves           *)
(*   351 m[1] = 28 (x[1] - x[0]),                                          *)
(*   351 m[i] = 622 m[i-1] - 275 m[i-2] + 28 (x[i] - x[i-1])  for i >= 2,  *)
(* which with m[0] = 0 has m as its only solution.  The signal line is     *)
(* 10 s[i] = 2 m[i] + 8 s[i-1].                                            *)
C9_MacdRecurrence ==
    (script = "MACDStrategy" /\ outcome = "ok" /\ NoMissingClose /\ NRows(data) > 0) =>
        LET m(i) == FxBig(At(data.MACD, i))
            s(i) == FxBig(At(data.MACD_SIGNAL, i))
        IN  /\ Len(data.MACD) = NRows(data)
            /\ Len(data.MACD_SIGNAL) = NRows(data)
            /\ \A i \in AllRows : ~At(data.MACD, i).nan /\ ~At(data.MACD_SIGNAL, i).nan
            /\ m(0) = Big(0)
            /\ s(0) = Big(0)
            /\ \A i \in Rows1 :
                 /\ BigMul(m(i), 351) =
                       IF i = 1 THEN BigMul(Scaled(CloseAt(1) - CloseAt(0)), 28)
                       ELSE BigAdd(BigAdd(BigMul(m(i - 1), 622),
                                          BigNeg(BigMul(m(i - 2), 275))),
                                   BigMul(Scaled(CloseAt(i) - CloseAt(i - 1)), 28))
                 /\ BigMulS(s(i), 10) = BigAdd(BigMulS(m(i), 2), BigMulS(s(i - 1), 8))

\* four rows whose last MACD and signal values are not zero
C9_Witness ==
    /\ script = "MACDStrategy"
    /\ NoMissingClose
    /\ NRows(data) >= 4
    /\ FxBig(At(data.MACD, 3)) # Big(0)
    /\ FxBig(At(data.MACD_SIGNAL, 3)) # Big(0)
    /\ At(data.MACD, 3) # At(data.MACD_SIGNAL, 3)

AtLeast(a, b) == a.d > 0 /\ b.d > 0 /\ a.n * b.d >= b.n * a.d

\* level is high - (num/1000) * (high - low), in integers
IsRetracement(level, high, low, num) ==
    /\ level.d > 0
    /\ level.n * 1000 * high.d * low.d =
          level.d * (1000 * high.n * low.d - num * (high.n * low.d - low.n * high.d))

(* C10: calculate_fibonacci_levels returns exactly the labels 0%, 23.6%,   *)
(* 38.2%, 50%, 61.8% and 100%, with 0% the maximum of High, 100% the       *)
(* minimum of Low, the others high - r*(high - low), so the levels do not  *)
(* increase from 0% to 100%; and it is only reached on a table that passed *)
(* the length check: a download of fewer than 2 bars ends in an error and  *)
(* yields no levels.                                                       *)
C10_FibonacciLevels ==
    /\ HasLevels =>
         LET high == levels["0%"]
             low == levels["100%"]
         IN  /\ script = "Fibonacci"
             /\ outcome = "ok"
             /\ NRows(data) >= 2
             /\ DOMAIN levels = {"0%", "23.6%", "38.2%", "50%", "61.8%", "100%"}
             /\ \E i \in AllRows : At(data.High, i) = high
             /\ \A i \in AllRows : AtLeast(high, At(data.High, i))
             /\ \E i \in AllRows : At(data.Low, i) = low
             /\ \A i \in AllRows : AtLeast(At(data.Low, i), low)
             /\ IsRetracement(levels["23.6%"], high, low, 236)
             /\ IsRetracement(levels["38.2%"], high, low, 382)
             /\ IsRetracement(levels["50%"], high, low, 500)
             /\ IsRetracement(levels["61.8%"], high, low, 618)
             /\ AtLeast(levels["0%"], levels["23.6%"])
             /\ AtLeast(levels["23.6%"], levels["38.2%"])
             /\ AtLeast(levels["38.2%"], levels["50%"])
             /\ AtLeast(levels["50%"], levels["61.8%"])
             /\ AtLeast(levels["61.8%"], levels["100%"])
    /\ (script = "Fibonacci" /\ (NRows(fetched) < 2 \/ NRows(data) < 2)) =>
         (Raised /\ ~HasLevels)

\* levels of a table whose highest High is above its lowest Low
C10_Witness ==
    /\ HasLevels
    /\ Above(levels["0%"], levels["100%"])
    /\ levels["23.6%"].d > 1

\* a one-bar download, refused
C10_ShortWitness ==
    /\ script = "Fibonacci"
    /\ NRows(fetched) = 1
    /\ outcome = "ValueError"

\* a column of the table as fetched is still there, row for row
KeptColumn(c) == c \in DOMAIN data /\ data[c] = fetched[c]

(* C11: no calculator or detector changes the table it was given: after    *)
(* the calculate_* and generate_* calls the table fetched holds the same   *)
(* rows and the same columns with the same values as when it was fetched,  *)
(* the derived series being new values aligned with it.  Stated for        *)
(* downloads that are not empty and have no missing close, and for        *)
(* short_window < long_window.                                             *)
C11_InputTableUnchanged ==
    (script # "none" /\ NRows(fetched) > 0 /\ NoMissingClose /\ OrderedWindows) =>
        /\ DOMAIN data = DOMAIN fetched
        /\ \A c \in DOMAIN fetched : KeptColumn(c)

(* C12: in EMACrossover.generate_signals and SMACrossover.generate_signals *)
(* the events alternate in row order over any input series: between two    *)
(* rows with Crossover = 1 there is a row with Crossover = -1 and the      *)
(* other way round, the first event is a Buy, and row 0 carries no event.  *)
C12_EventsAlternate ==
    (script \in {"SMACrossover", "EMACrossover"} /\ outcome = "ok") =>
        /\ \A i \in AllRows : At(data.Crossover, i) \in {NaN, R(0), Buy, Sell}
        /\ NRows(data) > 0 => ~EventAt(0)
        /\ \A i, j \in Rows1 :
             (i < j /\ BuyEventAt(i) /\ BuyEventAt(j)) =>
                \E k \in (i + 1)..(j - 1) : SellEventAt(k)
        /\ \A i, j \in Rows1 :
             (i < j /\ SellEventAt(i) /\ SellEventAt(j)) =>
                \E k \in (i + 1)..(j - 1) : BuyEventAt(k)
        /\ \A j \in Rows1 :
             SellEventAt(j) => \E i \in 1..(j - 1) : BuyEventAt(i)

\* Buy, Sell, Buy on three successive rows
C12_Witness ==
    /\ script \in {"SMACrossover", "EMACrossover"}
    /\ NRows(data) >= 4
    /\ BuyEventAt(1)
    /\ SellEventAt(2)
    /\ BuyEventAt(3)

\* the same in the EMA detector
C12_WitnessEMA ==
    /\ script = "EMACrossover"
    /\ \E i, j, k \in Rows1 : i < j /\ j < k /\ BuyEventAt(i) /\ SellEventAt(j) /\ BuyEventAt(k)

=============================================================================
